---- MODULE Spec2Model ----
(***************************************************************************)
(* A state-machine model of the tutorial notebooks of this repository:     *)
(*   - the quickstart notebook    (src/PyTorch/tensors.ipynb, 2nd document)*)
(*   - the optimization notebook  (src/unnamed/part_000)                   *)
(*   - the NumPy bridge cells of the tensors notebook                      *)
(*                                (src/PyTorch/tensors.ipynb, 1st document)*)
(*   - the transforms notebook    (src/PyTorch/transforms.ipynb)           *)
(*   - the model notebook         (src/unnamed/part_001)                   *)
(* A notebook is run top-to-bottom; nb names the notebook, pc the          *)
(* statement reached.  Tensors are abstracted to one number per parameter  *)
(* (arithmetic modulo ValMod, in units of the learning rate); gradients    *)
(* produced by autograd are a nondeterministic choice.                     *)
(***************************************************************************)
EXTENDS Integers, Sequences, FiniteSets, TLC

(*************************** bounds of the model ***************************)
MaxSize == 3        \* training datasets of 0..MaxSize samples
MaxTest == 1        \* test datasets of 0..MaxTest samples
MaxBatch == 2       \* batch sizes 1..MaxBatch
MaxEpochs == 2      \* epochs 0..MaxEpochs
ValMod == 2         \* abstract tensor values are 0..ValMod-1
MaxUpdates == 3     \* in-place updates applied to an aliased tensor/array
MaxImages == 3      \* inputs of 1..MaxImages images
MaxSide == 4        \* square tensors of side 2..MaxSide

(**************************** program constants ****************************)
LogEvery == 100         \* if batch % 100 == 0
NumClasses == 10        \* torch.zeros(10, ...), Linear(512, 10)
DocTrainSize == 60000   \* "size: 60000"
DocTestSize == 10000    \* 10,000 testing samples
DocBatchSize == 64      \* batch_size = 64
DocEpochs == 5          \* epochs = 5 (quickstart)
LrMilli == 1            \* lr=1e-3, in units of 1e-3
OptHyperEpochs == 5     \* epochs = 5 (optimization, hyperparameter cell)
OptLoopEpochs == 10     \* epochs = 10 (optimization, cell of the epoch loop)
BridgeLen == 5          \* torch.ones(5), np.ones(5)
GradNone == -1          \* a .grad that is None (unset)
ImageSide == 28         \* 28x28 images
Hidden == 512           \* Linear(28*28, 512), Linear(512, 512)
Layer1Out == 20         \* nn.Linear(in_features=28*28, out_features=20)
MiniBatch == 3          \* torch.rand(3,28,28)
ProbeImages == 1        \* X = torch.rand(1, 28, 28)
TensorSide == 4         \* tensor = torch.ones(4, 4)

VARIABLES
    nb,                 \* the notebook being run
    pc,                 \* the statement reached
    cfg,                \* the data and literals of the run
    accelAvailable,     \* torch.accelerator.is_available()
    cached,             \* the FashionMNIST files are under data/
    error,              \* the exception that stopped the run, or "none"
    device,             \* the notebook's global `device`
    training_data,      \* len(training_data), test_data likewise
    test_data,
    train_dataloader,   \* [size, batch_size] of each loader
    test_dataloader,
    objs,               \* the NeuralNetwork objects created so far
    model,              \* the object the global `model` names (0: unbound)
    optimizer,          \* the optimizer: the object it updates, and lr
    learning_rate,      \* the global `learning_rate` (optimization)
    batch_size,         \* the global `batch_size`
    epochs,             \* the global `epochs`
    t,                  \* the epoch loop's index
    batch,              \* the batch index of the running pass
    lenX,               \* len(X) of the current batch
    lossGrad,           \* the gradient backward() of the current loss yields
    stack,              \* the functions being executed
    file,               \* the contents of model.pth
    out,                \* progress lines printed by the running train pass
    btrace,             \* steps done in the current training batch
    doneCount,          \* number of times "Done!" was printed
    trainPasses,        \* completed train passes
    testPasses,         \* completed test passes
    trainBatchesDone,   \* batches completed in the latest train pass
    testBatchesDone,    \* batches completed in the latest test pass
    entry,              \* the model object as the latest test pass began
    hist,               \* the steps of the notebook, in order
    inferModel,         \* the object the inference cell used (0: none)
    heap,               \* storages of the tensors notebook
    tRef,               \* the storage `t` denotes (0: unbound)
    nRef,               \* the storage `n` denotes (0: unbound)
    updates,            \* in-place updates since the last aliasing
    label,              \* the label handed to target_transform (-1: none)
    target,             \* what target_transform returned
    shapes,             \* the shapes of the tensors of the model notebook
    tensor,             \* the global `tensor` of the tensors notebook
    t1,                 \* the global `t1`
    agg_item            \* the global `agg_item` (-1: unbound)

vars == <<nb, pc, cfg, accelAvailable, cached, error, device, training_data,
          test_data, train_dataloader, test_dataloader, objs, model,
          optimizer, learning_rate, batch_size, epochs, t, batch, lenX,
          lossGrad, stack, file, out, btrace, doneCount, trainPasses,
          testPasses, trainBatchesDone, testBatchesDone, entry, hist,
          inferModel, heap, tRef, nRef, updates, label, target, shapes,
          tensor, t1, agg_item>>

(***************************** the model class *****************************)
\* nn.Sequential(Linear, ReLU, Linear, ReLU, Linear)
Layers == <<"Linear", "ReLU", "Linear", "ReLU", "Linear">>

\* named_parameters(): weight and bias of every Linear, named by its index
ParamNames ==
    {<<i - 1, k>> : i \in {j \in 1..Len(Layers) : Layers[j] = "Linear"},
                    k \in {"weight", "bias"}}

\* the keys of state_dict(), in module order
RECURSIVE KeysFrom(_)
KeysFrom(i) ==
    IF i > Len(Layers) THEN << >>
    ELSE (IF Layers[i] = "Linear"
             THEN << <<i - 1, "weight">>, <<i - 1, "bias">> >>
             ELSE << >>) \o KeysFrom(i + 1)

StateDictKeys == KeysFrom(1)

\* the random initialisation of a new NeuralNetwork: one of two valuations
InitParamChoices ==
    {[n \in ParamNames |-> ((n[1] \div 2) + v) % ValMod] : v \in 0..1}

\* gradients autograd may produce for a batch: zero for every parameter,
\* or zero for the first layer's and one unit for the others'
GradChoices ==
    {[n \in ParamNames |-> IF n[1] = 0 THEN 0 ELSE g] : g \in 0..1}

NoGrads == [n \in ParamNames |-> GradNone]

\* NeuralNetwork().to(device): a module in training mode, no gradients yet
NewModule(init, dev) ==
    [params |-> init, grads |-> NoGrads, mode |-> "train", device |-> dev,
     loaded |-> FALSE]

(******************************* DataLoader ********************************)

DataLoader(size, bs) == [size |-> size, batch_size |-> bs]

\* len(dataloader): drop_last is False, so a partial last batch counts
NumBatches(dl) == (dl.size + dl.batch_size - 1) \div dl.batch_size

\* len(X) of batch b
BatchLen(dl, b) ==
    IF (b + 1) * dl.batch_size <= dl.size THEN dl.batch_size
    ELSE dl.size - b * dl.batch_size

(******************************** autograd *********************************)
\* loss.backward(): accumulates into .grad, which starts as None
Backward(grads, g) ==
    [n \in ParamNames |->
        IF grads[n] = GradNone THEN g[n] ELSE (grads[n] + g[n]) % ValMod]

\* optimizer.step() of SGD: p -= lr * p.grad for every p whose grad is set
SGDStep(params, grads, lr) ==
    [n \in ParamNames |->
        IF grads[n] = GradNone THEN params[n]
        ELSE (params[n] + ValMod * lr - lr * grads[n]) % ValMod]

\* faulty variant: the gradients are kept
ZeroGradKeeps(grads) == grads

\* optimizer.zero_grad(): set_to_none, every .grad becomes None
ZeroGrad(grads) == [n \in ParamNames |-> GradNone]

(****************************** save and load ******************************)
\* model.state_dict(): the ordered list of (name, value)
StateDict(obj) ==
    [i \in 1..Len(StateDictKeys) |->
        [name |-> StateDictKeys[i], value |-> obj.params[StateDictKeys[i]]]]

StateDictNames(sd) == {sd[i].name : i \in 1..Len(sd)}

\* load_state_dict(sd), strict: every key must match
KeysMatch(obj, sd) == StateDictNames(sd) = DOMAIN obj.params

\* the value the state dictionary holds under a name
EntryValue(sd, n) == sd[CHOOSE i \in 1..Len(sd) : sd[i].name = n].value

\* faulty variant: only the weights are copied, the biases keep their initial value
LoadWeightsOnly(obj, sd) ==
    [obj EXCEPT
        !.params = [n \in DOMAIN obj.params |->
                       IF n[2] = "weight" THEN EntryValue(sd, n)
                       ELSE obj.params[n]],
        !.loaded = TRUE]

\* every parameter is overwritten by the entry of its name
LoadStateDict(obj, sd) ==
    [obj EXCEPT
        !.params = [n \in DOMAIN obj.params |-> EntryValue(sd, n)],
        !.loaded = TRUE]

(********************************* shapes **********************************)
\* the result of an operation that raised a shape mismatch
ShapeErr == <<-1>>

RECURSIVE Product(_)
Product(sh) == IF sh = << >> THEN 1 ELSE Head(sh) * Product(Tail(sh))

\* faulty variant: every dimension is flattened (start_dim=0)
FlattenAll(sh) == IF sh = ShapeErr THEN ShapeErr ELSE <<Product(sh)>>

\* nn.Flatten(): start_dim=1, end_dim=-1; dimension 0 is kept
Flatten(sh) ==
    IF sh = ShapeErr \/ Len(sh) < 2 THEN ShapeErr
    ELSE <<sh[1], Product(Tail(sh))>>

\* nn.Linear(in, out): the last dimension must be in, and becomes out
Linear(in, outF, sh) ==
    IF sh = ShapeErr \/ sh = << >> \/ sh[Len(sh)] # in THEN ShapeErr
    ELSE [sh EXCEPT ![Len(sh)] = outF]

\* nn.ReLU(), nn.Softmax(dim=1): elementwise, the shape is kept
ReLU(sh) == sh

Softmax(sh) == IF sh = ShapeErr \/ Len(sh) < 2 THEN ShapeErr ELSE sh

\* NeuralNetwork.forward: flatten, then the linear_relu_stack
Forward(sh) ==
    Linear(Hidden, NumClasses,
        ReLU(Linear(Hidden, Hidden,
            ReLU(Linear(ImageSide * ImageSide, Hidden, Flatten(sh))))))

\* seq_modules: flatten, layer1, ReLU, Linear(20, 10)
SeqModules(sh) ==
    Linear(Layer1Out, NumClasses,
        ReLU(Linear(ImageSide * ImageSide, Layer1Out, Flatten(sh))))

\* a FashionMNIST sample after ToTensor(): [C, H, W] = [1, 28, 28]
SampleShape == <<1, ImageSide, ImageSide>>

\* a batch of len samples: [N, C, H, W]
BatchShape(len) == <<len>> \o SampleShape

NoShapes ==
    [X |-> << >>, logits |-> << >>, pred_probab |-> << >>,
     input_image |-> << >>, flat_image |-> << >>, hidden1 |-> << >>]

(******************************* the dataset *******************************)
\* datasets.FashionMNIST(root="data", download=True): the files are used
\* when present and fetched otherwise; net tells whether the fetch succeeds
Fetched(present, net) == present \/ net

(****************************** initial state ******************************)
NoError == "none"

SmallConfigs ==
    [trainSize : 0..MaxSize, testSize : 0..MaxTest,
     batchSize : 1..MaxBatch, epochs : 0..MaxEpochs]

\* the run the notebook documents: 60000/10000 samples, batches of 64,
\* 5 epochs
DocConfig ==
    [trainSize |-> DocTrainSize, testSize |-> DocTestSize,
     batchSize |-> DocBatchSize, epochs |-> DocEpochs]

\* the model notebook: the number of images of X (1 in the notebook) and
\* of input_image (3 in the notebook)
ModelConfigs ==
    {[trainSize |-> DocTrainSize, testSize |-> DocTestSize,
      batchSize |-> DocBatchSize, epochs |-> DocEpochs,
      probe |-> j, images |-> k] : j \in 1..MaxImages, k \in 1..MaxImages}

\* the tensors notebook: the side of the square `tensor` (4 in the
\* notebook); column 1 exists from side 2 on
TensorConfigs ==
    {[trainSize |-> DocTrainSize, testSize |-> DocTestSize,
      batchSize |-> DocBatchSize, epochs |-> DocEpochs,
      side |-> n] : n \in 2..MaxSide}

StartPc(n) ==
    CASE n = "quickstart" -> "q_datasets"
      [] n = "optimization" -> "o_prereq"
      [] n = "tensors" -> "t_ones"
      [] n = "transforms" -> "x_dataset"
      [] n = "buildmodel" -> "m_device"

Start(n, c, acc, cch) ==
    /\ nb = n
    /\ pc = StartPc(n)
    /\ cfg = c
    /\ accelAvailable = acc
    /\ cached = cch
    /\ error = NoError
    /\ device = "unset"
    /\ training_data = 0
    /\ test_data = 0
    /\ train_dataloader = DataLoader(0, 1)
    /\ test_dataloader = DataLoader(0, 1)
    /\ objs = << >>
    /\ model = 0
    /\ optimizer = [of |-> 0, lr |-> 0]
    /\ learning_rate = 0
    /\ batch_size = 0
    /\ epochs = 0
    /\ t = 0
    /\ batch = 0
    /\ lenX = 0
    /\ lossGrad = NoGrads
    /\ stack = << >>
    /\ file = << >>
    /\ out = << >>
    /\ btrace = << >>
    /\ doneCount = 0
    /\ trainPasses = 0
    /\ testPasses = 0
    /\ trainBatchesDone = 0
    /\ testBatchesDone = 0
    /\ entry = NewModule(NoGrads, "unset")
    /\ hist = << >>
    /\ inferModel = 0
    /\ heap = << >>
    /\ tRef = 0
    /\ nRef = 0
    /\ updates = 0
    /\ label = -1
    /\ target = << >>
    /\ shapes = NoShapes
    /\ tensor = << >>
    /\ t1 = << >>
    /\ agg_item = -1

\* the optimization and transforms notebooks never query the accelerator;
\* the tensors and buildmodel notebooks construct no dataset
Init ==
    \/ \E c \in SmallConfigs, acc \in BOOLEAN, cch \in BOOLEAN :
          Start("quickstart", c, acc, cch)
    \/ \E c \in SmallConfigs, cch \in BOOLEAN :
          Start("optimization", c, FALSE, cch)
    \/ \E c \in TensorConfigs, acc \in BOOLEAN :
          Start("tensors", c, acc, TRUE)
    \/ \E cch \in BOOLEAN : Start("transforms", DocConfig, FALSE, cch)
    \/ \E c \in ModelConfigs, acc \in BOOLEAN :
          Start("buildmodel", c, acc, TRUE)

\* the optimization notebook as written: FashionMNIST, batches of 64, and
\* the epoch loop's cell sets epochs = 10
OptConfig ==
    [trainSize |-> DocTrainSize, testSize |-> DocTestSize,
     batchSize |-> DocBatchSize, epochs |-> OptLoopEpochs]

InitOpt == Start("optimization", OptConfig, FALSE, TRUE)

\* the documented run of the quickstart: an accelerator ("Using mps
\* device"), no data/ directory in the checkout
InitDoc == Start("quickstart", DocConfig, TRUE, FALSE)

Running == error = NoError

(************************** quickstart: the cells **************************)
\* training_data = FashionMNIST(...); test_data = FashionMNIST(...)
DatasetsCell ==
    /\ Running /\ nb = "quickstart" /\ pc = "q_datasets"
    /\ \E net \in BOOLEAN :
          IF Fetched(cached, net)
          THEN /\ training_data' = cfg.trainSize
               /\ test_data' = cfg.testSize
               /\ hist' = Append(hist, "datasets")
               /\ pc' = "q_loaders"
               /\ error' = error
          ELSE /\ error' = "RuntimeError"
               /\ UNCHANGED <<training_data, test_data, hist, pc>>
    /\ UNCHANGED <<nb, cfg, accelAvailable, cached, device,
                   train_dataloader, test_dataloader, objs, model,
                   optimizer, learning_rate, batch_size, epochs, t, batch,
                   lenX, lossGrad, stack, file, out, btrace, doneCount,
                   trainPasses, testPasses, trainBatchesDone,
                   testBatchesDone, entry, inferModel, heap, tRef, nRef,
                   updates, label, target, shapes, tensor, t1, agg_item>>

\* batch_size = 64; the two DataLoaders; the first test batch is printed
LoadersCell ==
    /\ Running /\ nb = "quickstart" /\ pc = "q_loaders"
    /\ batch_size' = cfg.batchSize
    /\ train_dataloader' = DataLoader(training_data, batch_size')
    /\ test_dataloader' = DataLoader(test_data, batch_size')
    /\ hist' = Append(hist, "loaders")
    /\ pc' = "q_model"
    /\ UNCHANGED <<nb, cfg, accelAvailable, cached, error, device,
                   training_data, test_data, objs, model, optimizer,
                   learning_rate, epochs, t, batch, lenX, lossGrad, stack,
                   file, out, btrace, doneCount, trainPasses, testPasses,
                   trainBatchesDone, testBatchesDone, entry, inferModel,
                   heap, tRef, nRef, updates, label, target, shapes,
                   tensor, t1, agg_item>>

\* faulty variant: no fallback, the accelerator is used unconditionally
AlwaysAccelerator(avail) == "accelerator"

\* device = accelerator type if available else "cpu"
CurrentDevice(avail) == IF avail THEN "accelerator" ELSE "cpu"

\* device = ...; model = NeuralNetwork().to(device)
ModelCell ==
    /\ Running /\ nb = "quickstart" /\ pc = "q_model"
    /\ device' = CurrentDevice(accelAvailable)
    /\ \E init \in InitParamChoices :
          objs' = Append(objs, NewModule(init, device'))
    /\ model' = Len(objs')
    /\ hist' = Append(hist, "model")
    /\ pc' = "q_lossopt"
    /\ UNCHANGED <<nb, cfg, accelAvailable, cached, error, training_data,
                   test_data, train_dataloader, test_dataloader, optimizer,
                   learning_rate, batch_size, epochs, t, batch, lenX,
                   lossGrad, stack, file, out, btrace, doneCount,
                   trainPasses, testPasses, trainBatchesDone,
                   testBatchesDone, entry, inferModel, heap, tRef, nRef,
                   updates, label, target, shapes, tensor, t1, agg_item>>

\* torch.optim.SGD(model.parameters(), lr=1e-3)
SGD(m, lr) == [of |-> m, lr |-> lr]

\* loss_fn = CrossEntropyLoss(); optimizer = SGD(...); def train
LossOptCell ==
    /\ Running /\ nb = "quickstart" /\ pc = "q_lossopt"
    /\ optimizer' = SGD(model, LrMilli)
    /\ pc' = "epoch_cell"
    /\ UNCHANGED <<nb, cfg, accelAvailable, cached, error, device,
                   training_data, test_data, train_dataloader,
                   test_dataloader, objs, model, learning_rate, batch_size,
                   epochs, t, batch, lenX, lossGrad, stack, file, out,
                   btrace, doneCount, trainPasses, testPasses,
                   trainBatchesDone, testBatchesDone, entry, hist,
                   inferModel, heap, tRef, nRef, updates, label, target,
                   shapes, tensor, t1, agg_item>>

(****************** the epoch loop (both training notebooks) ***************)
Top(s) == IF s = << >> THEN "cell" ELSE s[Len(s)]
Pop(s) == SubSeq(s, 1, Len(s) - 1)

\* epochs = 5 (quickstart); loss_fn, optimizer, epochs = 10 (optimization)
EpochCell ==
    /\ Running /\ pc = "epoch_cell"
    /\ epochs' = cfg.epochs
    /\ optimizer' = IF nb = "optimization" THEN SGD(model, learning_rate)
                    ELSE optimizer
    /\ t' = 0
    /\ pc' = "loop_head"
    /\ UNCHANGED <<nb, cfg, accelAvailable, cached, error, device,
                   training_data, test_data, train_dataloader,
                   test_dataloader, objs, model, learning_rate, batch_size,
                   batch, lenX, lossGrad, stack, file, out, btrace,
                   doneCount, trainPasses, testPasses, trainBatchesDone,
                   testBatchesDone, entry, hist, inferModel, heap, tRef,
                   nRef, updates, label, target, shapes, tensor, t1,
                   agg_item>>

\* faulty variant: the loop stops one epoch early
LoopStopsEarly(i, n) == i + 1 < n

\* faulty variant: the loop runs one epoch too many
LoopOneMore(i, n) == i <= n

\* for t in range(epochs): the loop goes on while t < epochs
LoopContinues(i, n) == i < n

\* train(train_dataloader, ...): size, model.train(), first iteration next
TrainCall ==
    /\ Running /\ pc = "loop_head" /\ LoopContinues(t, epochs)
    /\ stack' = Append(stack, "train")
    /\ objs' = [objs EXCEPT ![model].mode = "train"]
    /\ batch' = 0
    /\ out' = << >>
    /\ trainBatchesDone' = 0
    /\ hist' = Append(hist, "train")
    /\ pc' = "train_iter"
    /\ UNCHANGED <<nb, cfg, accelAvailable, cached, error, device,
                   training_data, test_data, train_dataloader,
                   test_dataloader, model, optimizer, learning_rate,
                   batch_size, epochs, t, lenX, lossGrad, file, btrace,
                   doneCount, trainPasses, testPasses, testBatchesDone,
                   entry, inferModel, heap, tRef, nRef, updates, label,
                   target, shapes, tensor, t1, agg_item>>

\* faulty variant: the pass returns before the last batch
HasBatchButLast(dl, b) == b + 1 < NumBatches(dl)

\* enumerate(dataloader) has another batch
HasBatch(dl, b) == b < NumBatches(dl)

\* the next (X, y); X.to(device); pred = model(X)
TrainForward ==
    /\ Running /\ pc = "train_iter" /\ Top(stack) = "train"
    /\ HasBatch(train_dataloader, batch)
    /\ lenX' = BatchLen(train_dataloader, batch)
    /\ IF Forward(BatchShape(lenX')) = ShapeErr
       THEN /\ error' = "RuntimeError"
            /\ UNCHANGED <<btrace, pc>>
       ELSE /\ btrace' = <<"forward">>
            /\ pc' = "loss"
            /\ error' = error
    /\ UNCHANGED <<nb, cfg, accelAvailable, cached, device, training_data,
                   test_data, train_dataloader, test_dataloader, objs,
                   model, optimizer, learning_rate, batch_size, epochs, t,
                   batch, lossGrad, stack, file, out, doneCount,
                   trainPasses, testPasses, trainBatchesDone,
                   testBatchesDone, entry, hist, inferModel, heap, tRef,
                   nRef, updates, label, target, shapes, tensor, t1,
                   agg_item>>

\* loss = loss_fn(pred, y): the graph that backward() will differentiate
TrainLoss ==
    /\ Running /\ pc = "loss"
    /\ \E g \in GradChoices : lossGrad' = g
    /\ btrace' = Append(btrace, "loss")
    /\ pc' = "backward"
    /\ UNCHANGED <<nb, cfg, accelAvailable, cached, error, device,
                   training_data, test_data, train_dataloader,
                   test_dataloader, objs, model, optimizer, learning_rate,
                   batch_size, epochs, t, batch, lenX, stack, file, out,
                   doneCount, trainPasses, testPasses, trainBatchesDone,
                   testBatchesDone, entry, hist, inferModel, heap, tRef,
                   nRef, updates, label, target, shapes, tensor, t1,
                   agg_item>>

\* loss.backward()
TrainBackward ==
    /\ Running /\ pc = "backward"
    /\ objs' = [objs EXCEPT ![model].grads = Backward(@, lossGrad)]
    /\ btrace' = Append(btrace, "backward")
    /\ pc' = "step"
    /\ UNCHANGED <<nb, cfg, accelAvailable, cached, error, device,
                   training_data, test_data, train_dataloader,
                   test_dataloader, model, optimizer, learning_rate,
                   batch_size, epochs, t, batch, lenX, lossGrad, stack,
                   file, out, doneCount, trainPasses, testPasses,
                   trainBatchesDone, testBatchesDone, entry, hist,
                   inferModel, heap, tRef, nRef, updates, label, target,
                   shapes, tensor, t1, agg_item>>

\* optimizer.step()
TrainStep ==
    /\ Running /\ pc = "step"
    /\ objs' = [objs EXCEPT ![optimizer.of].params =
                   SGDStep(@, objs[optimizer.of].grads, optimizer.lr)]
    /\ btrace' = Append(btrace, "step")
    /\ pc' = "zero_grad"
    /\ UNCHANGED <<nb, cfg, accelAvailable, cached, error, device,
                   training_data, test_data, train_dataloader,
                   test_dataloader, model, optimizer, learning_rate,
                   batch_size, epochs, t, batch, lenX, lossGrad, stack,
                   file, out, doneCount, trainPasses, testPasses,
                   trainBatchesDone, testBatchesDone, entry, hist,
                   inferModel, heap, tRef, nRef, updates, label, target,
                   shapes, tensor, t1, agg_item>>

\* optimizer.zero_grad()
TrainZeroGrad ==
    /\ Running /\ pc = "zero_grad"
    /\ objs' = [objs EXCEPT ![optimizer.of].grads = ZeroGrad(@)]
    /\ btrace' = Append(btrace, "zero_grad")
    /\ pc' = "log"
    /\ UNCHANGED <<nb, cfg, accelAvailable, cached, error, device,
                   training_data, test_data, train_dataloader,
                   test_dataloader, model, optimizer, learning_rate,
                   batch_size, epochs, t, batch, lenX, lossGrad, stack,
                   file, out, doneCount, trainPasses, testPasses,
                   trainBatchesDone, testBatchesDone, entry, hist,
                   inferModel, heap, tRef, nRef, updates, label, target,
                   shapes, tensor, t1, agg_item>>

\* if batch % 100 == 0
Logged(b) == b % LogEvery = 0

\* faulty variant: train computes current the way train_loop does
CurrentAsTrainLoop(notebook, b, len, bs) == b * bs + len

\* current: batch * len(X) in train, batch * batch_size + len(X) in
\* train_loop
Current(notebook, b, len, bs) ==
    IF notebook = "optimization" THEN b * bs + len ELSE b * len

\* the progress line, when the batch is a logged one; the batch is done
TrainLog ==
    /\ Running /\ pc = "log"
    /\ out' = IF Logged(batch)
              THEN Append(out, [batch |-> batch,
                                current |-> Current(nb, batch, lenX,
                                                    batch_size),
                                size |-> train_dataloader.size])
              ELSE out
    /\ batch' = batch + 1
    /\ trainBatchesDone' = trainBatchesDone + 1
    /\ pc' = "train_iter"
    /\ UNCHANGED <<nb, cfg, accelAvailable, cached, error, device,
                   training_data, test_data, train_dataloader,
                   test_dataloader, objs, model, optimizer, learning_rate,
                   batch_size, epochs, t, lenX, lossGrad, stack, file,
                   btrace, doneCount, trainPasses, testPasses,
                   testBatchesDone, entry, hist, inferModel, heap, tRef,
                   nRef, updates, label, target, shapes, tensor, t1,
                   agg_item>>

\* the dataloader is exhausted: train returns
TrainReturn ==
    /\ Running /\ pc = "train_iter" /\ Top(stack) = "train"
    /\ ~HasBatch(train_dataloader, batch)
    /\ stack' = Pop(stack)
    /\ trainPasses' = trainPasses + 1
    /\ pc' = "call_test"
    /\ UNCHANGED <<nb, cfg, accelAvailable, cached, error, device,
                   training_data, test_data, train_dataloader,
                   test_dataloader, objs, model, optimizer, learning_rate,
                   batch_size, epochs, t, batch, lenX, lossGrad, file, out,
                   btrace, doneCount, testPasses, trainBatchesDone,
                   testBatchesDone, entry, hist, inferModel, heap, tRef,
                   nRef, updates, label, target, shapes, tensor, t1,
                   agg_item>>

\* test(test_dataloader, ...): size, num_batches, model.eval()
TestCall ==
    /\ Running /\ pc = "call_test"
    /\ stack' = Append(stack, "test")
    /\ objs' = [objs EXCEPT ![model].mode = "eval"]
    /\ entry' = objs[model]
    /\ batch' = 0
    /\ testBatchesDone' = 0
    /\ hist' = Append(hist, "test")
    /\ pc' = "test_iter"
    /\ UNCHANGED <<nb, cfg, accelAvailable, cached, error, device,
                   training_data, test_data, train_dataloader,
                   test_dataloader, model, optimizer, learning_rate,
                   batch_size, epochs, t, lenX, lossGrad, file, out,
                   btrace, doneCount, trainPasses, testPasses,
                   trainBatchesDone, inferModel, heap, tRef, nRef, updates,
                   label, target, shapes, tensor, t1, agg_item>>

\* faulty variant: the test batch backpropagates like a training batch
TestBatchTrains(obj) ==
    [obj EXCEPT !.grads = Backward(@, [n \in ParamNames |-> 1]),
                !.params = SGDStep(@, [n \in ParamNames |-> 1], LrMilli)]

\* what one batch of the test pass does to the model object: under
\* torch.no_grad() the forward pass builds no graph, and nothing is
\* differentiated or stepped
TestBatchEffect(obj) == obj

\* one batch under torch.no_grad(): pred, test_loss +=, correct +=
TestBatch ==
    /\ Running /\ pc = "test_iter" /\ Top(stack) = "test"
    /\ HasBatch(test_dataloader, batch)
    /\ lenX' = BatchLen(test_dataloader, batch)
    /\ IF Forward(BatchShape(lenX')) = ShapeErr
       THEN /\ error' = "RuntimeError"
            /\ UNCHANGED <<objs, batch, testBatchesDone>>
       ELSE /\ objs' = [objs EXCEPT ![model] = TestBatchEffect(@)]
            /\ batch' = batch + 1
            /\ testBatchesDone' = testBatchesDone + 1
            /\ error' = error
    /\ UNCHANGED <<nb, pc, cfg, accelAvailable, cached, device,
                   training_data, test_data, train_dataloader,
                   test_dataloader, model, optimizer, learning_rate,
                   batch_size, epochs, t, lossGrad, stack, file, out,
                   btrace, doneCount, trainPasses, testPasses,
                   trainBatchesDone, entry, hist, inferModel, heap, tRef,
                   nRef, updates, label, target, shapes, tensor, t1,
                   agg_item>>

\* test_loss /= num_batches; correct /= size; print; return; next epoch
TestReturn ==
    /\ Running /\ pc = "test_iter" /\ Top(stack) = "test"
    /\ ~HasBatch(test_dataloader, batch)
    /\ IF NumBatches(test_dataloader) = 0
       THEN /\ error' = "ZeroDivisionError"
            /\ UNCHANGED <<stack, testPasses, t, pc>>
       ELSE /\ stack' = Pop(stack)
            /\ testPasses' = testPasses + 1
            /\ t' = t + 1
            /\ pc' = "loop_head"
            /\ error' = error
    /\ UNCHANGED <<nb, cfg, accelAvailable, cached, device, training_data,
                   test_data, train_dataloader, test_dataloader, objs,
                   model, optimizer, learning_rate, batch_size, epochs,
                   batch, lenX, lossGrad, file, out, btrace, doneCount,
                   trainPasses, trainBatchesDone, testBatchesDone, entry,
                   hist, inferModel, heap, tRef, nRef, updates, label,
                   target, shapes, tensor, t1, agg_item>>

\* range(epochs) is exhausted: print("Done!"); the cell ends
LoopDone ==
    /\ Running /\ pc = "loop_head" /\ ~LoopContinues(t, epochs)
    /\ doneCount' = doneCount + 1
    /\ hist' = Append(hist, "done")
    /\ pc' = IF nb = "quickstart" THEN "q_save" ELSE "end"
    /\ UNCHANGED <<nb, cfg, accelAvailable, cached, error, device,
                   training_data, test_data, train_dataloader,
                   test_dataloader, objs, model, optimizer, learning_rate,
                   batch_size, epochs, t, batch, lenX, lossGrad, stack,
                   file, out, btrace, trainPasses, testPasses,
                   trainBatchesDone, testBatchesDone, entry, inferModel,
                   heap, tRef, nRef, updates, label, target, shapes,
                   tensor, t1, agg_item>>

(********************* quickstart: save, load, infer ***********************)
\* torch.save(obj, "model.pth") writes the entries as (key, value) pairs
TorchSave(sd) == [i \in 1..Len(sd) |-> <<sd[i].name, sd[i].value>>]

\* torch.load("model.pth", weights_only=True) rebuilds the dictionary
TorchLoad(f) == [i \in 1..Len(f) |-> [name |-> f[i][1], value |-> f[i][2]]]

\* torch.save(model.state_dict(), "model.pth")
SaveModel ==
    /\ Running /\ pc = "q_save"
    /\ file' = TorchSave(StateDict(objs[model]))
    /\ hist' = Append(hist, "save")
    /\ pc' = "q_newmodel"
    /\ UNCHANGED <<nb, cfg, accelAvailable, cached, error, device,
                   training_data, test_data, train_dataloader,
                   test_dataloader, objs, model, optimizer, learning_rate,
                   batch_size, epochs, t, batch, lenX, lossGrad, stack,
                   out, btrace, doneCount, trainPasses, testPasses,
                   trainBatchesDone, testBatchesDone, entry, inferModel,
                   heap, tRef, nRef, updates, label, target, shapes,
                   tensor, t1, agg_item>>

\* model = NeuralNetwork().to(device)
RecreateModel ==
    /\ Running /\ pc = "q_newmodel"
    /\ \E init \in InitParamChoices :
          objs' = Append(objs, NewModule(init, device))
    /\ model' = Len(objs')
    /\ hist' = Append(hist, "new_model")
    /\ pc' = "q_load"
    /\ UNCHANGED <<nb, cfg, accelAvailable, cached, error, device,
                   training_data, test_data, train_dataloader,
                   test_dataloader, optimizer, learning_rate, batch_size,
                   epochs, t, batch, lenX, lossGrad, stack, file, out,
                   btrace, doneCount, trainPasses, testPasses,
                   trainBatchesDone, testBatchesDone, entry, inferModel,
                   heap, tRef, nRef, updates, label, target, shapes,
                   tensor, t1, agg_item>>

\* model.load_state_dict(torch.load("model.pth", weights_only=True))
LoadModel ==
    /\ Running /\ pc = "q_load"
    /\ IF file = << >>
       THEN /\ error' = "FileNotFoundError"
            /\ UNCHANGED <<objs, hist, pc>>
       ELSE IF ~KeysMatch(objs[model], TorchLoad(file))
       THEN /\ error' = "RuntimeError"
            /\ UNCHANGED <<objs, hist, pc>>
       ELSE /\ objs' = [objs EXCEPT
                          ![model] = LoadStateDict(@, TorchLoad(file))]
            /\ hist' = Append(hist, "load")
            /\ pc' = "q_infer"
            /\ error' = error
    /\ UNCHANGED <<nb, cfg, accelAvailable, cached, device, training_data,
                   test_data, train_dataloader, test_dataloader, model,
                   optimizer, learning_rate, batch_size, epochs, t, batch,
                   lenX, lossGrad, stack, file, out, btrace, doneCount,
                   trainPasses, testPasses, trainBatchesDone,
                   testBatchesDone, entry, inferModel, heap, tRef, nRef,
                   updates, label, target, shapes, tensor, t1, agg_item>>

\* model.eval(); x, y = test_data[0]; pred = model(x) under no_grad; print
InferCell ==
    /\ Running /\ pc = "q_infer"
    /\ objs' = [objs EXCEPT ![model].mode = "eval"]
    /\ IF test_data = 0
       THEN /\ error' = "IndexError"
            /\ UNCHANGED <<inferModel, hist, pc>>
       ELSE IF Forward(SampleShape) = ShapeErr
       THEN /\ error' = "RuntimeError"
            /\ UNCHANGED <<inferModel, hist, pc>>
       ELSE /\ inferModel' = model
            /\ hist' = Append(hist, "infer")
            /\ pc' = "end"
            /\ error' = error
    /\ UNCHANGED <<nb, cfg, accelAvailable, cached, device, training_data,
                   test_data, train_dataloader, test_dataloader, model,
                   optimizer, learning_rate, batch_size, epochs, t, batch,
                   lenX, lossGrad, stack, file, out, btrace, doneCount,
                   trainPasses, testPasses, trainBatchesDone,
                   testBatchesDone, entry, heap, tRef, nRef, updates,
                   label, target, shapes, tensor, t1, agg_item>>

(************************ optimization: the cells **************************)
\* the prerequisite cell: both datasets, both loaders (batch_size=64),
\* model = NeuralNetwork() on the CPU
PrereqCell ==
    /\ Running /\ nb = "optimization" /\ pc = "o_prereq"
    /\ \E net \in BOOLEAN :
          IF Fetched(cached, net)
          THEN /\ training_data' = cfg.trainSize
               /\ test_data' = cfg.testSize
               /\ train_dataloader' =
                      DataLoader(training_data', cfg.batchSize)
               /\ test_dataloader' = DataLoader(test_data', cfg.batchSize)
               /\ \E init \in InitParamChoices :
                     objs' = Append(objs, NewModule(init, "cpu"))
               /\ model' = Len(objs')
               /\ hist' = hist \o <<"datasets", "loaders", "model">>
               /\ pc' = "o_hyper"
               /\ error' = error
          ELSE /\ error' = "RuntimeError"
               /\ UNCHANGED <<training_data, test_data, train_dataloader,
                              test_dataloader, objs, model, hist, pc>>
    /\ UNCHANGED <<nb, cfg, accelAvailable, cached, device, optimizer,
                   learning_rate, batch_size, epochs, t, batch, lenX,
                   lossGrad, stack, file, out, btrace, doneCount,
                   trainPasses, testPasses, trainBatchesDone,
                   testBatchesDone, entry, inferModel, heap, tRef, nRef,
                   updates, label, target, shapes, tensor, t1, agg_item>>

\* learning_rate = 1e-3; batch_size = 64; epochs = 5
HyperCell ==
    /\ Running /\ pc = "o_hyper"
    /\ learning_rate' = LrMilli
    /\ batch_size' = cfg.batchSize
    /\ epochs' = OptHyperEpochs
    /\ pc' = "o_optimizer"
    /\ UNCHANGED <<nb, cfg, accelAvailable, cached, error, device,
                   training_data, test_data, train_dataloader,
                   test_dataloader, objs, model, optimizer, t, batch, lenX,
                   lossGrad, stack, file, out, btrace, doneCount,
                   trainPasses, testPasses, trainBatchesDone,
                   testBatchesDone, entry, hist, inferModel, heap, tRef,
                   nRef, updates, label, target, shapes, tensor, t1,
                   agg_item>>

\* loss_fn = CrossEntropyLoss(); optimizer = SGD(..., lr=learning_rate);
\* def train_loop, def test_loop
OptimizerCell ==
    /\ Running /\ pc = "o_optimizer"
    /\ optimizer' = SGD(model, learning_rate)
    /\ pc' = "epoch_cell"
    /\ UNCHANGED <<nb, cfg, accelAvailable, cached, error, device,
                   training_data, test_data, train_dataloader,
                   test_dataloader, objs, model, learning_rate, batch_size,
                   epochs, t, batch, lenX, lossGrad, stack, file, out,
                   btrace, doneCount, trainPasses, testPasses,
                   trainBatchesDone, testBatchesDone, entry, hist,
                   inferModel, heap, tRef, nRef, updates, label, target,
                   shapes, tensor, t1, agg_item>>

\* torch.ones(len): a vector, indexed from 0
Ones(len) == [i \in 0..(len - 1) |-> 1]

(********************* tensors: operations on tensors **********************)
\* torch.ones(r, c): a matrix, rows and columns indexed from 0
Ones2(r, c) == [i \in 0..(r - 1) |-> Ones(c)]

Rows(m) == Cardinality(DOMAIN m)

Cols(m) == IF m = << >> THEN 0 ELSE Cardinality(DOMAIN m[0])

\* tensor.shape of a matrix
Size(m) == <<Rows(m), Cols(m)>>

\* faulty variant: the row of that index is assigned (tensor[c, :] = v)
SetRow(m, c, v) == [m EXCEPT ![c] = [j \in DOMAIN m[c] |-> v]]

\* tensor[:, c] = v: in place, entry c of every row
SetColumn(m, c, v) == [i \in DOMAIN m |-> [m[i] EXCEPT ![c] = v]]

\* two rows joined
RowCat(a, b) ==
    LET la == Cardinality(DOMAIN a)
        lb == Cardinality(DOMAIN b)
    IN  [j \in 0..(la + lb - 1) |-> IF j < la THEN a[j] ELSE b[j - la]]

\* torch.cat(ms, dim=1): the rows of the matrices joined, in order
RECURSIVE Cat(_)
Cat(ms) ==
    IF Len(ms) = 1 THEN ms[1]
    ELSE LET rest == Cat(Tail(ms))
         IN  [i \in DOMAIN ms[1] |-> RowCat(ms[1][i], rest[i])]

\* the sum of the first n entries of a row
RECURSIVE SumTo(_, _)
SumTo(row, n) == IF n = 0 THEN 0 ELSE row[n - 1] + SumTo(row, n - 1)

\* the sum of the first n rows
RECURSIVE SumRows(_, _)
SumRows(m, n) ==
    IF n = 0 THEN 0 ELSE SumTo(m[n - 1], Cols(m)) + SumRows(m, n - 1)

\* tensor.sum().item(); the entries are whole numbers, 12.0 is 12
Sum(m) == SumRows(m, Rows(m))

\* tensor = torch.ones(4, 4); print of the tensor, its first row, its first
\* and last column
TOnesCell ==
    /\ Running /\ nb = "tensors" /\ pc = "t_ones"
    /\ tensor' = Ones2(cfg.side, cfg.side)
    /\ pc' = "t_setcol"
    /\ UNCHANGED <<nb, cfg, accelAvailable, cached, error, device,
                   training_data, test_data, train_dataloader,
                   test_dataloader, objs, model, optimizer, learning_rate,
                   batch_size, epochs, t, batch, lenX, lossGrad, stack,
                   file, out, btrace, doneCount, trainPasses, testPasses,
                   trainBatchesDone, testBatchesDone, entry, hist,
                   inferModel, heap, tRef, nRef, updates, label, target,
                   shapes, t1, agg_item>>

\* tensor[:, 1] = 0; print(tensor)
TSetColumn ==
    /\ Running /\ pc = "t_setcol"
    /\ tensor' = SetColumn(tensor, 1, 0)
    /\ pc' = "t_cat"
    /\ UNCHANGED <<nb, cfg, accelAvailable, cached, error, device,
                   training_data, test_data, train_dataloader,
                   test_dataloader, objs, model, optimizer, learning_rate,
                   batch_size, epochs, t, batch, lenX, lossGrad, stack,
                   file, out, btrace, doneCount, trainPasses, testPasses,
                   trainBatchesDone, testBatchesDone, entry, hist,
                   inferModel, heap, tRef, nRef, updates, label, target,
                   shapes, t1, agg_item>>

\* t1 = torch.cat([tensor, tensor, tensor], dim=1)
TCatCell ==
    /\ Running /\ pc = "t_cat"
    /\ t1' = Cat(<<tensor, tensor, tensor>>)
    /\ pc' = "t_arith"
    /\ UNCHANGED <<nb, cfg, accelAvailable, cached, error, device,
                   training_data, test_data, train_dataloader,
                   test_dataloader, objs, model, optimizer, learning_rate,
                   batch_size, epochs, t, batch, lenX, lossGrad, stack,
                   file, out, btrace, doneCount, trainPasses, testPasses,
                   trainBatchesDone, testBatchesDone, entry, hist,
                   inferModel, heap, tRef, nRef, updates, label, target,
                   shapes, tensor, agg_item>>

\* y1, y2, y3 = tensor @ tensor.T; z1, z2, z3 = tensor * tensor: new
\* tensors (out= writes y3, z3), `tensor` is only read
TArithCell ==
    /\ Running /\ pc = "t_arith"
    /\ pc' = "t_sum"
    /\ UNCHANGED <<nb, cfg, accelAvailable, cached, error, device,
                   training_data, test_data, train_dataloader,
                   test_dataloader, objs, model, optimizer, learning_rate,
                   batch_size, epochs, t, batch, lenX, lossGrad, stack,
                   file, out, btrace, doneCount, trainPasses, testPasses,
                   trainBatchesDone, testBatchesDone, entry, hist,
                   inferModel, heap, tRef, nRef, updates, label, target,
                   shapes, tensor, t1, agg_item>>

\* agg = tensor.sum(); agg_item = agg.item()
TSumCell ==
    /\ Running /\ pc = "t_sum"
    /\ agg_item' = Sum(tensor)
    /\ pc' = "b_numpy"
    /\ UNCHANGED <<nb, cfg, accelAvailable, cached, error, device,
                   training_data, test_data, train_dataloader,
                   test_dataloader, objs, model, optimizer, learning_rate,
                   batch_size, epochs, t, batch, lenX, lossGrad, stack,
                   file, out, btrace, doneCount, trainPasses, testPasses,
                   trainBatchesDone, testBatchesDone, entry, hist,
                   inferModel, heap, tRef, nRef, updates, label, target,
                   shapes, tensor, t1>>

(********************* tensors: the bridge with NumPy **********************)
\* torch.ones(5) / np.ones(5): a new storage
NewStorage(dtype, len) == [dtype |-> dtype, data |-> Ones(len)]

\* faulty variant: the array is a copy of the tensor's data
NumpyCopy(h, ref) == [heap |-> Append(h, h[ref]), ref |-> Len(h) + 1]

\* t.numpy(): an array over the tensor's storage
Numpy(h, ref) == [heap |-> h, ref |-> ref]

\* torch.from_numpy(n): a tensor over the array's storage
FromNumpy(h, ref) == [heap |-> h, ref |-> ref]

\* x + 1 elementwise, written to the storage
AddOne(data) == [i \in DOMAIN data |-> data[i] + 1]

\* t = torch.ones(5); n = t.numpy()
BridgeNumpyCell ==
    /\ Running /\ nb = "tensors" /\ pc = "b_numpy"
    /\ LET h1 == Append(heap, NewStorage("float32", BridgeLen))
           r == Numpy(h1, Len(h1))
       IN  /\ heap' = r.heap
           /\ tRef' = Len(h1)
           /\ nRef' = r.ref
    /\ updates' = 0
    /\ pc' = "b_aliased1"
    /\ UNCHANGED <<nb, cfg, accelAvailable, cached, error, device,
                   training_data, test_data, train_dataloader,
                   test_dataloader, objs, model, optimizer, learning_rate,
                   batch_size, epochs, t, batch, lenX, lossGrad, stack,
                   file, out, btrace, doneCount, trainPasses, testPasses,
                   trainBatchesDone, testBatchesDone, entry, hist,
                   inferModel, label, target, shapes, tensor, t1, agg_item>>

\* t.add_(1)
TensorAdd ==
    /\ Running /\ pc \in {"b_aliased1", "b_aliased2"}
    /\ updates < MaxUpdates
    /\ heap' = [heap EXCEPT ![tRef].data = AddOne(@)]
    /\ updates' = updates + 1
    /\ UNCHANGED <<nb, pc, cfg, accelAvailable, cached, error, device,
                   training_data, test_data, train_dataloader,
                   test_dataloader, objs, model, optimizer, learning_rate,
                   batch_size, epochs, t, batch, lenX, lossGrad, stack,
                   file, out, btrace, doneCount, trainPasses, testPasses,
                   trainBatchesDone, testBatchesDone, entry, hist,
                   inferModel, tRef, nRef, label, target, shapes, tensor,
                   t1, agg_item>>

\* np.add(n, 1, out=n)
ArrayAdd ==
    /\ Running /\ pc \in {"b_aliased1", "b_aliased2"}
    /\ updates < MaxUpdates
    /\ heap' = [heap EXCEPT ![nRef].data = AddOne(@)]
    /\ updates' = updates + 1
    /\ UNCHANGED <<nb, pc, cfg, accelAvailable, cached, error, device,
                   training_data, test_data, train_dataloader,
                   test_dataloader, objs, model, optimizer, learning_rate,
                   batch_size, epochs, t, batch, lenX, lossGrad, stack,
                   file, out, btrace, doneCount, trainPasses, testPasses,
                   trainBatchesDone, testBatchesDone, entry, hist,
                   inferModel, tRef, nRef, label, target, shapes, tensor,
                   t1, agg_item>>

\* n = np.ones(5); t = torch.from_numpy(n)
BridgeFromNumpyCell ==
    /\ Running /\ pc = "b_aliased1" /\ updates >= 1
    /\ LET h1 == Append(heap, NewStorage("float64", BridgeLen))
           r == FromNumpy(h1, Len(h1))
       IN  /\ heap' = r.heap
           /\ nRef' = Len(h1)
           /\ tRef' = r.ref
    /\ updates' = 0
    /\ pc' = "b_aliased2"
    /\ UNCHANGED <<nb, cfg, accelAvailable, cached, error, device,
                   training_data, test_data, train_dataloader,
                   test_dataloader, objs, model, optimizer, learning_rate,
                   batch_size, epochs, t, batch, lenX, lossGrad, stack,
                   file, out, btrace, doneCount, trainPasses, testPasses,
                   trainBatchesDone, testBatchesDone, entry, hist,
                   inferModel, label, target, shapes, tensor, t1, agg_item>>

\* the last cell has printed t and n
BridgeEnd ==
    /\ Running /\ pc = "b_aliased2" /\ updates >= 1
    /\ pc' = "end"
    /\ UNCHANGED <<nb, cfg, accelAvailable, cached, error, device,
                   training_data, test_data, train_dataloader,
                   test_dataloader, objs, model, optimizer, learning_rate,
                   batch_size, epochs, t, batch, lenX, lossGrad, stack,
                   file, out, btrace, doneCount, trainPasses, testPasses,
                   trainBatchesDone, testBatchesDone, entry, hist,
                   inferModel, heap, tRef, nRef, updates, label, target,
                   shapes, tensor, t1, agg_item>>

(************************ transforms: target_transform *********************)
Zeros(len) == [i \in 0..(len - 1) |-> 0]

\* faulty variant: the value is added to every entry but the indexed one
ScatterComplement(self, index, v) ==
    [i \in DOMAIN self |-> IF i = index THEN self[i] ELSE v]

\* self.scatter_(0, index, value=v) with a one-element index
Scatter(self, index, v) == [self EXCEPT ![index] = v]

\* lambda y: torch.zeros(10).scatter_(0, torch.tensor(y), value=1)
TargetTransform(y) == Scatter(Zeros(NumClasses), y, 1)

\* the labels of FashionMNIST
Labels == 0..(NumClasses - 1)

\* argmax: the first index holding the maximum
ArgMax(v) ==
    CHOOSE i \in DOMAIN v :
        /\ \A j \in DOMAIN v : v[j] <= v[i]
        /\ \A j \in DOMAIN v : j < i => v[j] < v[i]

\* ds = datasets.FashionMNIST(..., target_transform=Lambda(...))
XDatasetCell ==
    /\ Running /\ nb = "transforms" /\ pc = "x_dataset"
    /\ \E net \in BOOLEAN :
          IF Fetched(cached, net)
          THEN /\ training_data' = cfg.trainSize
               /\ pc' = "x_ready"
               /\ error' = error
          ELSE /\ error' = "RuntimeError"
               /\ UNCHANGED <<training_data, pc>>
    /\ UNCHANGED <<nb, cfg, accelAvailable, cached, device, test_data,
                   train_dataloader, test_dataloader, objs, model,
                   optimizer, learning_rate, batch_size, epochs, t, batch,
                   lenX, lossGrad, stack, file, out, btrace, doneCount,
                   trainPasses, testPasses, trainBatchesDone,
                   testBatchesDone, entry, hist, inferModel, heap, tRef,
                   nRef, updates, label, target, shapes, tensor, t1,
                   agg_item>>

\* ds[i]: the dataset hands the sample's label to target_transform
XGetItem ==
    /\ Running /\ pc = "x_ready"
    /\ \E y \in Labels :
          /\ label' = y
          /\ target' = TargetTransform(y)
    /\ UNCHANGED <<nb, pc, cfg, accelAvailable, cached, error, device,
                   training_data, test_data, train_dataloader,
                   test_dataloader, objs, model, optimizer, learning_rate,
                   batch_size, epochs, t, batch, lenX, lossGrad, stack,
                   file, out, btrace, doneCount, trainPasses, testPasses,
                   trainBatchesDone, testBatchesDone, entry, hist,
                   inferModel, heap, tRef, nRef, updates, shapes, tensor,
                   t1, agg_item>>

(*********************** the model notebook: the cells *********************)
\* device = accelerator type if available else 'cpu'
MDeviceCell ==
    /\ Running /\ nb = "buildmodel" /\ pc = "m_device"
    /\ device' = CurrentDevice(accelAvailable)
    /\ pc' = "m_model"
    /\ UNCHANGED <<nb, cfg, accelAvailable, cached, error, training_data,
                   test_data, train_dataloader, test_dataloader, objs,
                   model, optimizer, learning_rate, batch_size, epochs, t,
                   batch, lenX, lossGrad, stack, file, out, btrace,
                   doneCount, trainPasses, testPasses, trainBatchesDone,
                   testBatchesDone, entry, hist, inferModel, heap, tRef,
                   nRef, updates, label, target, shapes, tensor, t1,
                   agg_item>>

\* class NeuralNetwork; model = NeuralNetwork().to(device)
MModelCell ==
    /\ Running /\ pc = "m_model"
    /\ \E init \in InitParamChoices :
          objs' = Append(objs, NewModule(init, device))
    /\ model' = Len(objs')
    /\ pc' = "m_forward"
    /\ UNCHANGED <<nb, cfg, accelAvailable, cached, error, device,
                   training_data, test_data, train_dataloader,
                   test_dataloader, optimizer, learning_rate, batch_size,
                   epochs, t, batch, lenX, lossGrad, stack, file, out,
                   btrace, doneCount, trainPasses, testPasses,
                   trainBatchesDone, testBatchesDone, entry, hist,
                   inferModel, heap, tRef, nRef, updates, label, target,
                   shapes, tensor, t1, agg_item>>

\* X = torch.rand(1, 28, 28); logits = model(X); Softmax(dim=1)(logits)
MForwardCell ==
    /\ Running /\ pc = "m_forward"
    /\ LET x == <<cfg.probe, ImageSide, ImageSide>>
           l == Forward(x)
       IN  IF l = ShapeErr \/ Softmax(l) = ShapeErr
           THEN /\ error' = "RuntimeError"
                /\ UNCHANGED <<shapes, pc>>
           ELSE /\ shapes' = [shapes EXCEPT !.X = x, !.logits = l,
                                            !.pred_probab = Softmax(l)]
                /\ pc' = "m_input"
                /\ error' = error
    /\ UNCHANGED <<nb, cfg, accelAvailable, cached, device, training_data,
                   test_data, train_dataloader, test_dataloader, objs,
                   model, optimizer, learning_rate, batch_size, epochs, t,
                   batch, lenX, lossGrad, stack, file, out, btrace,
                   doneCount, trainPasses, testPasses, trainBatchesDone,
                   testBatchesDone, entry, hist, inferModel, heap, tRef,
                   nRef, updates, label, target, tensor, t1, agg_item>>

\* input_image = torch.rand(3,28,28)
MInputCell ==
    /\ Running /\ pc = "m_input"
    /\ shapes' = [shapes EXCEPT
                     !.input_image = <<cfg.images, ImageSide, ImageSide>>]
    /\ pc' = "m_flatten"
    /\ UNCHANGED <<nb, cfg, accelAvailable, cached, error, device,
                   training_data, test_data, train_dataloader,
                   test_dataloader, objs, model, optimizer, learning_rate,
                   batch_size, epochs, t, batch, lenX, lossGrad, stack,
                   file, out, btrace, doneCount, trainPasses, testPasses,
                   trainBatchesDone, testBatchesDone, entry, hist,
                   inferModel, heap, tRef, nRef, updates, label, target,
                   tensor, t1, agg_item>>

\* flatten = nn.Flatten(); flat_image = flatten(input_image)
MFlattenCell ==
    /\ Running /\ pc = "m_flatten"
    /\ LET f == Flatten(shapes.input_image)
       IN  IF f = ShapeErr
           THEN /\ error' = "RuntimeError"
                /\ UNCHANGED <<shapes, pc>>
           ELSE /\ shapes' = [shapes EXCEPT !.flat_image = f]
                /\ pc' = "m_linear"
                /\ error' = error
    /\ UNCHANGED <<nb, cfg, accelAvailable, cached, device, training_data,
                   test_data, train_dataloader, test_dataloader, objs,
                   model, optimizer, learning_rate, batch_size, epochs, t,
                   batch, lenX, lossGrad, stack, file, out, btrace,
                   doneCount, trainPasses, testPasses, trainBatchesDone,
                   testBatchesDone, entry, hist, inferModel, heap, tRef,
                   nRef, updates, label, target, tensor, t1, agg_item>>

\* layer1 = nn.Linear(in_features=28*28, out_features=20);
\* hidden1 = layer1(flat_image)
MLinearCell ==
    /\ Running /\ pc = "m_linear"
    /\ LET h == Linear(ImageSide * ImageSide, Layer1Out, shapes.flat_image)
       IN  IF h = ShapeErr
           THEN /\ error' = "RuntimeError"
                /\ UNCHANGED <<shapes, pc>>
           ELSE /\ shapes' = [shapes EXCEPT !.hidden1 = h]
                /\ pc' = "m_relu"
                /\ error' = error
    /\ UNCHANGED <<nb, cfg, accelAvailable, cached, device, training_data,
                   test_data, train_dataloader, test_dataloader, objs,
                   model, optimizer, learning_rate, batch_size, epochs, t,
                   batch, lenX, lossGrad, stack, file, out, btrace,
                   doneCount, trainPasses, testPasses, trainBatchesDone,
                   testBatchesDone, entry, hist, inferModel, heap, tRef,
                   nRef, updates, label, target, tensor, t1, agg_item>>

\* hidden1 = nn.ReLU()(hidden1)
MReluCell ==
    /\ Running /\ pc = "m_relu"
    /\ shapes' = [shapes EXCEPT !.hidden1 = ReLU(@)]
    /\ pc' = "m_seq"
    /\ UNCHANGED <<nb, cfg, accelAvailable, cached, error, device,
                   training_data, test_data, train_dataloader,
                   test_dataloader, objs, model, optimizer, learning_rate,
                   batch_size, epochs, t, batch, lenX, lossGrad, stack,
                   file, out, btrace, doneCount, trainPasses, testPasses,
                   trainBatchesDone, testBatchesDone, entry, hist,
                   inferModel, heap, tRef, nRef, updates, label, target,
                   tensor, t1, agg_item>>

\* seq_modules = nn.Sequential(flatten, layer1, nn.ReLU(),
\* nn.Linear(20, 10)); input_image = torch.rand(3,28,28);
\* logits = seq_modules(input_image)
MSequentialCell ==
    /\ Running /\ pc = "m_seq"
    /\ LET x == <<cfg.images, ImageSide, ImageSide>>
           l == SeqModules(x)
       IN  IF l = ShapeErr
           THEN /\ error' = "RuntimeError"
                /\ UNCHANGED <<shapes, pc>>
           ELSE /\ shapes' = [shapes EXCEPT !.input_image = x,
                                            !.logits = l]
                /\ pc' = "m_softmax"
                /\ error' = error
    /\ UNCHANGED <<nb, cfg, accelAvailable, cached, device, training_data,
                   test_data, train_dataloader, test_dataloader, objs,
                   model, optimizer, learning_rate, batch_size, epochs, t,
                   batch, lenX, lossGrad, stack, file, out, btrace,
                   doneCount, trainPasses, testPasses, trainBatchesDone,
                   testBatchesDone, entry, hist, inferModel, heap, tRef,
                   nRef, updates, label, target, tensor, t1, agg_item>>

\* softmax = nn.Softmax(dim=1); pred_probab = softmax(logits)
MSoftmaxCell ==
    /\ Running /\ pc = "m_softmax"
    /\ LET p == Softmax(shapes.logits)
       IN  IF p = ShapeErr
           THEN /\ error' = "RuntimeError"
                /\ UNCHANGED <<shapes, pc>>
           ELSE /\ shapes' = [shapes EXCEPT !.pred_probab = p]
                /\ pc' = "m_params"
                /\ error' = error
    /\ UNCHANGED <<nb, cfg, accelAvailable, cached, device, training_data,
                   test_data, train_dataloader, test_dataloader, objs,
                   model, optimizer, learning_rate, batch_size, epochs, t,
                   batch, lenX, lossGrad, stack, file, out, btrace,
                   doneCount, trainPasses, testPasses, trainBatchesDone,
                   testBatchesDone, entry, hist, inferModel, heap, tRef,
                   nRef, updates, label, target, tensor, t1, agg_item>>

\* print(model); for name, param in model.named_parameters(): print
MParamsCell ==
    /\ Running /\ pc = "m_params"
    /\ pc' = "end"
    /\ UNCHANGED <<nb, cfg, accelAvailable, cached, error, device,
                   training_data, test_data, train_dataloader,
                   test_dataloader, objs, model, optimizer, learning_rate,
                   batch_size, epochs, t, batch, lenX, lossGrad, stack,
                   file, out, btrace, doneCount, trainPasses, testPasses,
                   trainBatchesDone, testBatchesDone, entry, hist,
                   inferModel, heap, tRef, nRef, updates, label, target,
                   shapes, tensor, t1, agg_item>>

(***************************** specifications ******************************)
NextQuick ==
    \/ DatasetsCell \/ LoadersCell \/ ModelCell \/ LossOptCell
    \/ EpochCell \/ TrainCall \/ TrainForward \/ TrainLoss
    \/ TrainBackward \/ TrainStep \/ TrainZeroGrad \/ TrainLog
    \/ TrainReturn \/ TestCall \/ TestBatch \/ TestReturn \/ LoopDone
    \/ SaveModel \/ RecreateModel \/ LoadModel \/ InferCell

Next ==
    \/ NextQuick
    \/ PrereqCell \/ HyperCell \/ OptimizerCell
    \/ TOnesCell \/ TSetColumn \/ TCatCell \/ TArithCell \/ TSumCell
    \/ BridgeNumpyCell \/ TensorAdd \/ ArrayAdd \/ BridgeFromNumpyCell
    \/ BridgeEnd
    \/ XDatasetCell \/ XGetItem
    \/ MDeviceCell \/ MModelCell \/ MForwardCell \/ MInputCell
    \/ MFlattenCell \/ MLinearCell \/ MReluCell \/ MSequentialCell
    \/ MSoftmaxCell \/ MParamsCell

Spec == Init /\ [][Next]_vars

\* cells run one after another without pause: a step that can be taken is
\* taken
FairSpec == Spec /\ WF_vars(Next)

\* the documented run of the quickstart
SpecDoc == InitDoc /\ [][NextQuick]_vars

\* the optimization notebook, cell by cell
NextOpt ==
    \/ PrereqCell \/ HyperCell \/ OptimizerCell
    \/ EpochCell \/ TrainCall \/ TrainForward \/ TrainLoss
    \/ TrainBackward \/ TrainStep \/ TrainZeroGrad \/ TrainLog
    \/ TrainReturn \/ TestCall \/ TestBatch \/ TestReturn \/ LoopDone

\* the run of the optimization notebook as written
SpecOpt == InitOpt /\ [][NextOpt]_vars

(******************************** claims **********************************)
IsPrefix(s, full) == Len(s) <= Len(full) /\ s = SubSeq(full, 1, Len(s))

RECURSIVE Rounds(_)
Rounds(e) == IF e = 0 THEN << >> ELSE <<"train", "test">> \o Rounds(e - 1)

\* the steps of the quickstart, in the order of its cells
QuickstartOrder(e) ==
    <<"datasets", "loaders", "model">> \o Rounds(e)
        \o <<"done", "save", "new_model", "load", "infer">>

\* C1: in the quickstart the steps occur in the order datasets, loaders,
\* model, all epochs of train/test, save, load into a new model, inference
\* on one example; model.pth is written only after the last epoch has
\* finished, and the model used for inference is one that was loaded.
C1_QuickstartOrder ==
    nb = "quickstart" =>
        /\ IsPrefix(hist, QuickstartOrder(cfg.epochs))
        /\ (file # << >> =>
                /\ trainPasses = cfg.epochs
                /\ testPasses = cfg.epochs
                /\ doneCount = 1)
        /\ (inferModel # 0 => objs[inferModel].loaded)

C1_Witness ==
    /\ nb = "quickstart" /\ pc = "end" /\ cfg.epochs = 2
    /\ hist = QuickstartOrder(2)
    /\ inferModel = 2

\* C2: after save and load into a new NeuralNetwork, the new model's
\* parameter names are exactly the names in the file, and every parameter
\* equals the trained model's value of that name at the moment of saving
\* (which the file keeps), however many training steps preceded the save.
C2_SaveLoadRoundTrip ==
    /\ (nb = "quickstart" /\ file # << >>) =>
            \A n \in ParamNames :
                EntryValue(TorchLoad(file), n) = objs[1].params[n]
    /\ (nb = "quickstart" /\ Len(objs) = 2 /\ objs[2].loaded) =>
            /\ DOMAIN objs[2].params = StateDictNames(TorchLoad(file))
            /\ \A n \in DOMAIN objs[2].params :
                    objs[2].params[n] = objs[1].params[n]

C2_Witness ==
    /\ nb = "quickstart" /\ Len(objs) = 2 /\ objs[2].loaded
    /\ trainPasses = 2 /\ trainBatchesDone = 2
    /\ objs[2].params \notin InitParamChoices

\* the cell that constructs the dataset has been executed
DatasetCellRan == hist # << >> \/ pc = "x_ready" \/ ~Running

\* the cell that chooses the device has been executed
DeviceCellRan == device # "unset"

\* C3 as stated: when the dataset is missing or no accelerator is
\* available, the notebook does not recover or fall back: the run stops
\* with the framework-raised error.
C3_Original ==
    /\ (DeviceCellRan /\ ~accelAvailable) => ~Running
    /\ (DatasetCellRan /\ ~cached) => ~Running

\* C3, amended: an error raised by the framework is not handled (the run
\* stops at the raising statement and nothing executes afterwards); the
\* only RuntimeError that arises is the failed download of a missing
\* dataset (no cell produces a shape mismatch).  But a missing dataset
\* that download=True fetches, and a missing accelerator, are no errors:
\* the device falls back to "cpu" and the run continues.
C3_Amended ==
    /\ [](DeviceCellRan /\ ~accelAvailable => device = "cpu")
    /\ [][device' # device => Running' /\ pc' # pc]_vars
    /\ [](~Running /\ pc \in {"q_datasets", "o_prereq", "x_dataset"}
              => ~cached /\ error = "RuntimeError")
    /\ [](error = "RuntimeError"
              => pc \in {"q_datasets", "o_prereq", "x_dataset"})
    /\ [][~Running => UNCHANGED vars]_vars
    /\ [][Running /\ ~Running' =>
              /\ pc' = pc
              /\ UNCHANGED <<hist, file, inferModel, doneCount,
                             trainPasses, testPasses>>]_vars

C3_Witness ==
    /\ nb = "quickstart" /\ pc = "end" /\ Running
    /\ ~accelAvailable /\ ~cached
    /\ device = "cpu" /\ objs[inferModel].device = "cpu"

\* the run has passed its last cell
Finished == Running /\ pc \in {"end", "x_ready"}

\* the dataset was missing and could not be downloaded
DownloadFailed ==
    /\ error = "RuntimeError"
    /\ pc \in {"q_datasets", "o_prereq", "x_dataset"}

\* the epoch loop has ended
LoopEnded == doneCount > 0

C5_DocumentedProgress ==
    /\ \A i \in 1..Len(out) :
          /\ out[i].batch = (i - 1) * 100
          /\ out[i].current = (i - 1) * 6400
          /\ out[i].size = 60000
          /\ out[i].current < out[i].size
    /\ Len(out) <= 10
    /\ (pc = "call_test" \/ Top(stack) = "test") => Len(out) = 10
    /\ (Top(stack) = "train" /\ pc = "train_iter" /\ Len(out) < 10)
            => HasBatch(train_dataloader, batch)
    /\ (pc = "log" /\ ~HasBatch(train_dataloader, batch + 1)) =>
            /\ batch = 937
            /\ lenX = 32
            /\ ~Logged(batch)

C5_Witness ==
    /\ pc = "loop_head" /\ trainPasses = 5 /\ testPasses = 5
    /\ Len(out) = 10
    /\ out[10] = [batch |-> 900, current |-> 57600, size |-> 60000]

\* the statements of a training batch that follow the forward pass
InBatch == pc \in {"loss", "backward", "step", "zero_grad", "log"}

\* C6: execution is sequential: a train pass and a test pass are never in
\* progress together and only one batch is in progress at a time; the test
\* pass of epoch t starts after the train pass of epoch t has processed all
\* its batches, and the train pass of epoch t+1 after the test pass of
\* epoch t has processed all of its.
C6_Sequential ==
    /\ Len(stack) <= 1
    /\ InBatch => (Top(stack) = "train" /\ trainBatchesDone = batch)
    /\ Top(stack) = "train" =>
          /\ trainPasses = t /\ testPasses = t
          /\ trainBatchesDone <= batch /\ batch <= trainBatchesDone + 1
          /\ (t > 0 => testBatchesDone = NumBatches(test_dataloader))
    /\ Top(stack) = "test" =>
          /\ trainPasses = t + 1 /\ testPasses = t
          /\ trainBatchesDone = NumBatches(train_dataloader)
          /\ testBatchesDone = batch
    /\ (pc = "call_test" =>
            trainBatchesDone = NumBatches(train_dataloader))

C6_Witness ==
    /\ Top(stack) = "train" /\ InBatch /\ t = 1 /\ batch = 1
    /\ testBatchesDone = 1 /\ NumBatches(test_dataloader) = 1
    /\ NumBatches(train_dataloader) = 2

\* C7: after n = t.numpy() or t = torch.from_numpy(n) the tensor and the
\* array denote the same storage: after any sequence of in-place updates
\* of either of them they hold equal values at every index (all 2s after
\* one increment of all-ones).
C7_BridgeAliasing ==
    (nb = "tensors" /\ tRef # 0) =>
        /\ nRef # 0
        /\ \A i \in 0..(BridgeLen - 1) :
              /\ heap[tRef].data[i] = heap[nRef].data[i]
              /\ heap[tRef].data[i] = 1 + updates
        /\ heap[tRef].dtype = heap[nRef].dtype

C7_Witness ==
    /\ nb = "tensors" /\ pc = "b_aliased2" /\ updates = 1
    /\ \A i \in 0..(BridgeLen - 1) :
          heap[tRef].data[i] = 2 /\ heap[nRef].data[i] = 2
    /\ \A i \in 0..(BridgeLen - 1) : heap[1].data[i] > 2

\* C8: for every label y in 0..9 the target_transform returns a vector of
\* length 10 with 1 at index y and 0 elsewhere; distinct labels give
\* distinct vectors and the label is the index of the maximum.
C8_OneHot ==
    label # -1 =>
        /\ DOMAIN target = 0..9
        /\ target[label] = 1
        /\ \A i \in (0..9) \ {label} : target[i] = 0
        /\ ArgMax(target) = label
        /\ \A y \in Labels \ {label} : TargetTransform(y) # target

C8_Witness == label = 9 /\ target[9] = 1 /\ target[0] = 0

\* the steps of one training batch
BatchOrder == <<"forward", "loss", "backward", "step", "zero_grad">>

\* C9: in every training batch of train() and train_loop() the steps occur
\* in the order forward, loss, backward, optimizer.step, zero_grad, and
\* all gradients are unset when backward begins (first batch, and first
\* batch after a test pass, included), so the step uses the gradient of
\* the current batch only.
C9_BatchOrder ==
    /\ IsPrefix(btrace, BatchOrder)
    /\ InBatch => Len(btrace) >= 1
    /\ (pc = "backward" =>
            /\ btrace = <<"forward", "loss">>
            /\ objs[model].grads = NoGrads)
    /\ (pc = "step" =>
            /\ btrace = <<"forward", "loss", "backward">>
            /\ optimizer.of = model
            /\ objs[optimizer.of].grads = lossGrad)
    /\ (pc = "log" => btrace = BatchOrder)

C9_Witness ==
    /\ nb = "optimization" /\ pc = "step" /\ batch = 0
    /\ trainPasses = 1 /\ testPasses = 1 /\ testBatchesDone = 1
    /\ \E n \in ParamNames : lossGrad[n] = 1

\* C10: test() and test_loop() leave the model as it was: parameters and
\* gradients (and everything but the mode) have after the call, and
\* during it, the values they had before; only the train/eval mode flag
\* changes.
C10_TestFrame ==
    /\ (pc = "call_test" => objs[model].mode = "train")
    /\ (Top(stack) = "test" \/ (pc = "loop_head" /\ testPasses > 0)) =>
          /\ objs[model].params = entry.params
          /\ objs[model].grads = entry.grads
          /\ objs[model] = [entry EXCEPT !.mode = "eval"]
          /\ entry.mode = "train"

C10_Witness ==
    /\ pc = "loop_head" /\ testPasses = 1 /\ testBatchesDone = 1
    /\ trainBatchesDone = 2
    /\ objs[model].mode = "eval" /\ entry.mode = "train"
    /\ objs[model].params = entry.params

\* a training batch of the optimization notebook is being processed
InTrainLoop == nb = "optimization" /\ stack # << >> /\ Top(stack) = "train"

\* the batch being processed is not the last one of its pass
FullBatch ==
    /\ pc \in {"loss", "backward", "step", "zero_grad", "log"}
    /\ batch + 1 < NumBatches(train_dataloader)

\* C11 as stated: in the optimization notebook the values of the
\* hyperparameter cell (learning_rate = 1e-3, batch_size = 64, epochs = 5)
\* are in force during the training run: the training dataset is iterated
\* exactly 5 times, every full batch holds batch_size samples, and the
\* optimizer uses learning_rate.
C11_HyperparametersInForce ==
    nb = "optimization" =>
        /\ trainPasses <= OptHyperEpochs
        /\ LoopEnded => trainPasses = OptHyperEpochs
        /\ InTrainLoop =>
               /\ epochs = OptHyperEpochs
               /\ learning_rate = LrMilli
               /\ batch_size = DocBatchSize
               /\ optimizer.lr = learning_rate
               /\ FullBatch => lenX = batch_size

\* what the run does instead: learning_rate and batch_size are in force,
\* and the dataset is iterated 10 times, the value the loop's cell assigns
C11_LoopCellEpochs ==
    nb = "optimization" =>
        /\ trainPasses <= OptLoopEpochs
        /\ LoopEnded => trainPasses = OptLoopEpochs
        /\ InTrainLoop =>
               /\ epochs = OptLoopEpochs
               /\ learning_rate = LrMilli
               /\ batch_size = DocBatchSize
               /\ optimizer.lr = learning_rate
               /\ FullBatch => lenX = batch_size

\* a run of the optimization notebook that has ended its loop
C11_LoopEnded == nb = "optimization" /\ LoopEnded /\ Running

\* the cells of the model notebook that have been executed
ModelCellsDone(cells) == nb = "buildmodel" /\ pc \in cells

\* C12: shapes through the model keep the minibatch dimension: for an
\* input of k images of 28x28 (k >= 1), Flatten yields [k, 784],
\* Linear(784, 20) yields [k, 20] (also after ReLU), and NeuralNetwork
\* yields logits of shape [k, 10]; documented for k = 3:
\* [3, 28, 28] -> [3, 784] -> [3, 20].  No cell stops with a shape error.
C12_ShapesKeepBatch ==
    nb = "buildmodel" =>
        /\ Running
        /\ ModelCellsDone({"m_input", "m_flatten", "m_linear", "m_relu",
                           "m_seq"}) =>
               /\ shapes.X = <<cfg.probe, 28, 28>>
               /\ shapes.logits = <<cfg.probe, 10>>
               /\ shapes.pred_probab = <<cfg.probe, 10>>
        /\ ModelCellsDone({"m_flatten", "m_linear", "m_relu", "m_seq",
                           "m_softmax", "m_params", "end"}) =>
               shapes.input_image = <<cfg.images, 28, 28>>
        /\ ModelCellsDone({"m_linear", "m_relu", "m_seq", "m_softmax",
                           "m_params", "end"}) =>
               /\ shapes.flat_image = <<cfg.images, 784>>
               /\ cfg.images = 3 => shapes.flat_image = <<3, 784>>
        /\ ModelCellsDone({"m_relu", "m_seq", "m_softmax", "m_params",
                           "end"}) =>
               /\ shapes.hidden1 = <<cfg.images, 20>>
               /\ cfg.images = 3 => shapes.hidden1 = <<3, 20>>
        /\ ModelCellsDone({"m_softmax", "m_params", "end"}) =>
               shapes.logits = <<cfg.images, 10>>
        /\ ModelCellsDone({"m_params", "end"}) =>
               shapes.pred_probab = <<cfg.images, 10>>

\* the notebook as written (X of one image, input_image of three) has run
\* to its last cell
C12_Witness ==
    /\ nb = "buildmodel" /\ pc = "end" /\ Running
    /\ cfg.probe = ProbeImages /\ cfg.images = MiniBatch
    /\ shapes.input_image = <<3, 28, 28>>
    /\ shapes.flat_image = <<3, 784>>
    /\ shapes.hidden1 = <<3, 20>>

\* the entries of a matrix that hold the value v
Entries(m, v) == {<<i, j>> \in (DOMAIN m) \X (0..(Cols(m) - 1)) : m[i][j] = v}

\* the documented row of t1: 1,0,1,1 three times
DocRow == <<1, 0, 1, 1, 1, 0, 1, 1, 1, 0, 1, 1>>

\* the state part of C13, for a tensor of side n (4 in the notebook)
ColumnOneZeroed ==
    LET n == cfg.side
    IN  /\ pc \notin {"t_ones", "t_setcol"} =>
               /\ Size(tensor) = <<n, n>>
               /\ \A i \in 0..(n - 1), j \in 0..(n - 1) :
                     tensor[i][j] = IF j = 1 THEN 0 ELSE 1
               /\ Cardinality(Entries(tensor, 0)) = n
               /\ Cardinality(Entries(tensor, 1)) = n * n - n
               /\ n = 4 => /\ Cardinality(Entries(tensor, 0)) = 4
                           /\ Cardinality(Entries(tensor, 1)) = 12
        /\ t1 # << >> =>
               /\ Size(t1) = <<n, 3 * n>>
               /\ \A i \in 0..(n - 1), j \in 0..(3 * n - 1) :
                     t1[i][j] = IF j % n = 1 THEN 0 ELSE 1
               /\ n = 4 => /\ Size(t1) = <<4, 12>>
                           /\ \A i \in 0..3, j \in 0..11 :
                                 t1[i][j] = DocRow[j + 1]
        /\ agg_item # -1 =>
               /\ agg_item = n * n - n
               /\ n = 4 => agg_item = 12

\* C13: in the tensors notebook the in-place assignment tensor[:, 1] = 0 on
\* the 4x4 all-ones tensor sets exactly the four entries of column 1 to 0
\* and leaves the other twelve entries at 1 (the assignment changes no entry
\* outside column 1, and no later cell changes the tensor); consequently
\* tensor.sum().item() is 12.0 and torch.cat of three copies along dim=1
\* has shape [4, 12] with the row pattern 1,0,1,1 repeated three times.
C13_ColumnAssignment ==
    /\ [](nb = "tensors" => ColumnOneZeroed)
    /\ [][nb = "tensors" /\ pc = "t_setcol" =>
              /\ Size(tensor') = Size(tensor)
              /\ \A i \in DOMAIN tensor : \A j \in DOMAIN tensor[i] :
                    tensor'[i][j] = IF j = 1 THEN 0 ELSE tensor[i][j]]_vars
    /\ [][nb = "tensors" /\ pc \notin {"t_ones", "t_setcol"} =>
              tensor' = tensor]_vars

\* the notebook as written (a 4x4 tensor) has printed the sum
C13_Witness ==
    /\ nb = "tensors" /\ cfg.side = TensorSide /\ pc = "b_numpy"
    /\ agg_item = 12
    /\ Size(t1) = <<4, 12>>
    /\ tensor[0] = (0 :> 1 @@ 1 :> 0 @@ 2 :> 1 @@ 3 :> 1)

====
